---- MODULE Spec2Model ----
(***************************************************************************)
(* Model of gui/recommender_gui.py: the RecommenderGui main window, its    *)
(* dataset registry (ui.datasets), chat log, child widgets and the         *)
(* ./data and ./tmp_data directories it reads and cleans.                  *)
(*                                                                         *)
(* Strings are sequences of one-character strings, so that split,          *)
(* endswith and concatenation are computed, not assumed.                   *)
(***************************************************************************)
EXTENDS Naturals, Sequences, FiniteSets, TLC

\* ------------------------------------------------------------------ bounds
\* files in ./data at start-up
MaxData == 2
\* files and subdirectories the query widget leaves under ./tmp_data
MaxEntries == 3
\* nesting depth of subdirectories under ./tmp_data
MaxDepth == 2
\* entries of ui.datasets
MaxRegistry == 2
\* user lines of ui.chatBox
MaxChat == 1

\* ------------------------------------------------------------- characters
Digits == <<"0", "1", "2", "3", "4", "5", "6", "7", "8", "9">>

TwoDigits(n) == <<Digits[(n \div 10) + 1], Digits[(n % 10) + 1]>>

FourDigits(n) == TwoDigits(n \div 100) \o TwoDigits(n % 100)

\* datetime.now(): the wall clock readings the model draws from
Clock ==
    { [mo |-> 1, d |-> 2, y |-> 2024, h |-> 9, mi |-> 5, s |-> 7],
      [mo |-> 12, d |-> 31, y |-> 2024, h |-> 23, mi |-> 59, s |-> 58] }

\* strftime("%H:%M:%S")
StrfHMS(t) == TwoDigits(t.h) \o <<":">> \o TwoDigits(t.mi) \o <<":">> \o TwoDigits(t.s)

\* strftime("%m/%d/%Y %H:%M:%S")
StrfDateTime(t) ==
    TwoDigits(t.mo) \o <<"/">> \o TwoDigits(t.d) \o <<"/">> \o FourDigits(t.y)
        \o <<" ">> \o StrfHMS(t)

SetMin(S) == CHOOSE x \in S : \A y \in S : x <= y

\* str.split(sep)[0]: the text before the first separator, all of it if none
SplitFirst(s, sep) ==
    LET at == {i \in 1..Len(s) : s[i] = sep}
    IN  IF at = {} THEN s ELSE SubSeq(s, 1, SetMin(at) - 1)

\* str.endswith(suffix)
EndsWith(s, suffix) ==
    /\ Len(s) >= Len(suffix)
    /\ SubSeq(s, Len(s) - Len(suffix) + 1, Len(s)) = suffix

DotCsv == <<".", "c", "s", "v">>

\* every order in which a directory listing may enumerate the set S
Perms(S) ==
    {p \in [1..Cardinality(S) -> S] :
        \A i, j \in 1..Cardinality(S) : p[i] = p[j] => i = j}

\* --------------------------------------------------------------- tables
\* a DataFrame: its number of rows and its column labels
NoDf == [rows |-> 0, cols |-> {}]

\* the frames pd.read_csv returns for the well-formed files of the model:
\* one and two data rows under one header, one row under another header
Frames ==
    { [rows |-> 1, cols |-> {"x"}], [rows |-> 2, cols |-> {"x"}],
      [rows |-> 1, cols |-> {"y"}] }

\* ------------------------------------------------------------------ state
VARIABLES
    pc,         \* position of the event loop / of the handler in progress
    ev,         \* the handler in progress or last completed, "none" once
                \* the user or a collaborator has acted since
    dataDir,    \* ./data: a set of [name, ok, df]
    tmp_data,   \* ./tmp_data: [exists, dirs, files]
    datasets,   \* ui.datasets: sequence of [name, data]
    current,    \* ui.datasets current index, 0 when there is none
    chatBox,    \* ui.chatBox: sequence of [timestamp, sender, text]
    userInput,  \* ui.userInput text
    logOut,     \* logger calls of the handler in progress or last completed
    shown,      \* the windows that are open
    name,       \* _finish_query: the local variable name
    dfs,        \* _finish_query: the local list dfs
    walk,       \* _finish_query: the stack of os.walk frames
    sigName,    \* the identifier carried by the last query done signal
    tmp0,       \* ./tmp_data as it was when _finish_query was entered
    datasets0,  \* ui.datasets as it was when _finish_query was entered
    closeOrder  \* closeEvent: the windows closed so far, in order, and
                \* whether each was open

vars ==
    <<pc, ev, dataDir, tmp_data, datasets, current, chatBox, userInput, logOut,
      shown, name, dfs, walk, sigName, tmp0, datasets0, closeOrder>>

\* --------------------------------------------------------------- logging
\* one logger call: its level, its message and the path it names, if any
LogRec(level, msg, arg) == [level |-> level, msg |-> msg, arg |-> arg]

\* ---------------------------------------------------------- ui.datasets
\* QComboBox.addItem(name, data): appended at the end
AddItem(items, n, df) == Append(items, [name |-> n, data |-> df])

\* the current index after an addItem: the first item added becomes current
CurrentAfterAdd(items, cur) == IF cur = 0 /\ Len(items) > 0 THEN 1 ELSE cur

\* ---------------------------------------------------------------- ./data
CsvA == <<"a", ".", "c", "s", "v">>
CsvDotted == <<"a", ".", "b", ".", "c", "s", "v">>
NoExt == <<"r", "a", "w">>
Txt == <<"n", ".", "t", "x", "t">>

DataNames == {CsvA, CsvDotted, NoExt, Txt}

\* one file: pd.read_csv succeeds on it (ok) with frame df, or raises
FileVariants(names, frames) ==
    {[name |-> n, ok |-> TRUE, df |-> d] : n \in names, d \in frames}
    \cup {[name |-> n, ok |-> FALSE, df |-> NoDf] : n \in names}

DistinctNames(S) == \A f, g \in S : f.name = g.name => f = g

DataDirs ==
    {S \in SUBSET FileVariants(DataNames, {[rows |-> 1, cols |-> {"x"}]}) :
        Cardinality(S) <= MaxData /\ DistinctNames(S)}

\* ------------------------------------------------- _set_initial_data
\* one iteration of the loop over os.listdir: acc is [items, log]
LoadOne(file, acc) ==
    LET dname == SplitFirst(file.name, ".")
    IN  IF file.ok
        THEN [items |-> AddItem(acc.items, dname, file.df), log |-> acc.log]
        ELSE [items |-> acc.items,
              log |-> acc.log
                  \o <<LogRec("error", "Unable to convert file to dataframe", <<file.name>>),
                       LogRec("error", "exception", <<file.name>>)>>]

\* a loader that lets the first exception end the loop
RECURSIVE LoadAll_abort(_, _)
LoadAll_abort(listing, acc) ==
    IF listing = <<>> THEN acc
    ELSE IF Head(listing).ok
         THEN LoadAll_abort(Tail(listing), LoadOne(Head(listing), acc))
         ELSE LoadOne(Head(listing), acc)

\* the loop over os.listdir(output_dir), in listing order
RECURSIVE LoadAll(_, _)
LoadAll(listing, acc) ==
    IF listing = <<>> THEN acc
    ELSE LoadAll(Tail(listing), LoadOne(Head(listing), acc))

\* ------------------------------------------------------------ __init__
Greeting ==
    <<"W", "h", "a", "t", " ", "t", "y", "p", "e", " ", "o", "f", " ",
      "m", "o", "v", "i", "e", " ", "w", "o", "u", "l", "d", " ",
      "y", "o", "u", " ", "l", "i", "k", "e", " ", "t", "o", " ",
      "w", "a", "t", "c", "h", "?">>

\* f"[{timestamp}] {sender}: {text}", kept as its three fields
ChatLine(t, sender, text) ==
    [timestamp |-> StrfDateTime(t), sender |-> sender, text |-> text]

Collaborators == {"import", "query", "table"}

NoTree == [exists |-> FALSE, dirs |-> {}, files |-> {}]

EmptyTree == [exists |-> TRUE, dirs |-> {}, files |-> {}]

\* the state after __init__ has run over the ./data directory dir, with the
\* files listed in the order listing and the greeting stamped at time t
Constructed(t, listing) ==
    LET loaded ==
            LoadAll(listing,
                    [items |-> <<>>,
                     log |-> <<LogRec("info", "Running movie recommendation app", <<>>)>>])
    IN  /\ chatBox' = <<ChatLine(t, "Bot", Greeting)>>
        /\ datasets' = loaded.items
        /\ current' = CurrentAfterAdd(loaded.items, 0)
        /\ logOut' = loaded.log

\* RecommenderGui(): the constructor, then the application shows the window
Construct ==
    /\ pc = "new"
    /\ \E t \in Clock, listing \in Perms(dataDir) : Constructed(t, listing)
    /\ pc' = "idle"
    /\ ev' = "__init__"
    /\ shown' = {"main"}
    /\ UNCHANGED <<dataDir, tmp_data, userInput, name, dfs, walk, sigName, tmp0,
                   datasets0, closeOrder>>

\* the event loop dispatches the next event only between handlers, and
\* only while the main window is open
Idle == pc = "idle" /\ "main" \in shown

\* ------------------------------------------------------- user, widgets
Texts == {<<>>, <<" ">>, <<"h", "i">>}

\* the user edits ui.userInput
UserTypes ==
    /\ Idle
    /\ ev' = "none"
    /\ \E text \in Texts : userInput' = text
    /\ userInput' # userInput
    /\ UNCHANGED <<pc, dataDir, tmp_data, datasets, current, chatBox, logOut,
                   shown, name, dfs, walk, sigName, tmp0, datasets0, closeOrder>>

\* _user_chatted: returnPressed on ui.userInput or pressed on ui.enter
UserChatted ==
    /\ Idle
    /\ Len(chatBox) <= MaxChat
    /\ ev' = "_user_chatted"
    /\ logOut' = <<>>
    /\ IF userInput # <<>>
       THEN /\ \E t \in Clock :
                 chatBox' = Append(chatBox, ChatLine(t, "User", userInput))
            /\ userInput' = <<>>
       ELSE UNCHANGED <<chatBox, userInput>>
    /\ UNCHANGED <<pc, dataDir, tmp_data, datasets, current, shown, name, dfs, walk,
                   sigName, tmp0, datasets0, closeOrder>>

\* ui.openImport.pressed -> _import_widget.show
OpenImport ==
    /\ Idle
    /\ ev' = "none"
    /\ "import" \notin shown
    /\ shown' = shown \cup {"import"}
    /\ UNCHANGED <<pc, dataDir, tmp_data, datasets, current, chatBox, userInput,
                   logOut, name, dfs, walk, sigName, tmp0, datasets0, closeOrder>>

\* ui.openQuery.pressed -> _query_widget.show
OpenQuery ==
    /\ Idle
    /\ ev' = "none"
    /\ "query" \notin shown
    /\ shown' = shown \cup {"query"}
    /\ UNCHANGED <<pc, dataDir, tmp_data, datasets, current, chatBox, userInput,
                   logOut, name, dfs, walk, sigName, tmp0, datasets0, closeOrder>>

\* ui.datasets.currentData(): None when no item is current
CurrentData == IF current = 0 THEN NoDf ELSE datasets[current].data

\* _open_table
OpenTable ==
    /\ Idle
    /\ ev' = "_open_table"
    /\ IF CurrentData # NoDf
       THEN /\ shown' = shown \cup {"table"}
            /\ logOut' = <<>>
       ELSE /\ shown' = shown
            /\ logOut' = <<LogRec("debug", "No dataset selected", <<>>)>>
    /\ UNCHANGED <<pc, dataDir, tmp_data, datasets, current, chatBox, userInput, name,
                   dfs, walk, sigName, tmp0, datasets0, closeOrder>>

\* the user closes one of the secondary windows
UserClosesWidget ==
    /\ Idle
    /\ ev' = "none"
    /\ \E w \in Collaborators \cap shown : shown' = shown \ {w}
    /\ UNCHANGED <<pc, dataDir, tmp_data, datasets, current, chatBox, userInput,
                   logOut, name, dfs, walk, sigName, tmp0, datasets0, closeOrder>>

\* -------------------------------------------------------- _finish_import
\* the datasets the import widget's done signal carries
ImportSamples == {[name |-> <<"a">>, df |-> [rows |-> 1, cols |-> {"x"}]]}

\* an import handler that skips a name the registry already holds
FinishImport_dedup ==
    /\ Idle
    /\ Len(datasets) < MaxRegistry
    /\ ev' = "_finish_import"
    /\ \E dataset \in ImportSamples :
         /\ logOut' = <<LogRec("info", "Importing new dataset", <<dataset.name>>)>>
         /\ datasets' =
                IF \E i \in 1..Len(datasets) : datasets[i].name = dataset.name
                THEN datasets
                ELSE AddItem(datasets, dataset.name, dataset.df)
         /\ current' = CurrentAfterAdd(datasets', current)
    /\ UNCHANGED <<pc, dataDir, tmp_data, chatBox, userInput, shown, name, dfs, walk,
                   sigName, tmp0, datasets0, closeOrder>>

\* _finish_import(dataset): the slot of _import_widget.done
FinishImport ==
    /\ Idle
    /\ Len(datasets) < MaxRegistry
    /\ ev' = "_finish_import"
    /\ \E dataset \in ImportSamples :
         /\ logOut' = <<LogRec("info", "Importing new dataset", <<dataset.name>>)>>
         /\ datasets' = AddItem(datasets, dataset.name, dataset.df)
         /\ current' = CurrentAfterAdd(datasets', current)
    /\ UNCHANGED <<pc, dataDir, tmp_data, chatBox, userInput, shown, name, dfs, walk,
                   sigName, tmp0, datasets0, closeOrder>>

\* ------------------------------------------------------------ closeEvent
\* one statement of closeEvent: close window w and go on to position next
CloseStep(at, w, next) ==
    /\ pc = at
    /\ "main" \in shown
    /\ pc' = next
    /\ ev' = "closeEvent"
    /\ shown' = shown \ {w}
    /\ closeOrder' = Append(closeOrder, [window |-> w, open |-> w \in shown])
    /\ logOut' = IF at = "idle" THEN <<>> ELSE logOut
    /\ UNCHANGED <<dataDir, tmp_data, datasets, current, chatBox, userInput, name, dfs,
                   walk, sigName, tmp0, datasets0>>

\* self._import_widget.close()
CloseEventImport == CloseStep("idle", "import", "close_query")

\* self._query_widget.close()
CloseEventQuery == CloseStep("close_query", "query", "close_table")

\* a closeEvent that forgets the table widget
CloseEventTable_skip ==
    /\ pc = "close_table"
    /\ pc' = "close_super"
    /\ UNCHANGED <<ev, dataDir, tmp_data, datasets, current, chatBox, userInput, logOut,
                   shown, name, dfs, walk, sigName, tmp0, datasets0, closeOrder>>

\* self._table_widget.close()
CloseEventTable == CloseStep("close_table", "table", "close_super")

\* super().closeEvent(a0): the main window closes
CloseEventSuper == CloseStep("close_super", "main", "closed")

\* ------------------------------------------------------------ ./tmp_data
DirNames == {<<"s">>, <<"t">>}

\* a directory path is the sequence of directory names below ./tmp_data
IsPrefix(p, q) == Len(p) <= Len(q) /\ SubSeq(q, 1, Len(p)) = p

EntryCount(fs) == Cardinality(fs.dirs) + Cardinality(fs.files)

\* the directories of fs, ./tmp_data itself included when it exists
DirsOf(fs) == IF fs.exists THEN fs.dirs \cup {<<>>} ELSE {}

\* names of the subdirectories and of the files directly in directory top
SubdirNames(fs, top) ==
    {d[Len(d)] : d \in {e \in fs.dirs : Len(e) = Len(top) + 1 /\ IsPrefix(top, e)}}

FileNames(fs, top) == {f.name : f \in {g \in fs.files : g.path = top}}

FileAt(fs, top, n) == CHOOSE f \in fs.files : f.path = top /\ f.name = n

\* everything fs holds below directory d
Beneath(fs, d) ==
    {e \in fs.dirs : e # d /\ IsPrefix(d, e)}
    \cup {f.path \o <<f.name>> : f \in {g \in fs.files : IsPrefix(d, g.path)}}

\* the files the query widget may write: a.csv well-formed or not, and a
\* well-formed table under a name that does not end in .csv
ScratchFiles ==
    FileVariants({CsvA}, Frames)
    \cup {[name |-> Txt, ok |-> TRUE, df |-> [rows |-> 1, cols |-> {"x"}]]}

\* the query widget creates a subdirectory (and ./tmp_data when missing)
QueryWidgetMkdir ==
    /\ Idle
    /\ ev' = "none"
    /\ EntryCount(tmp_data) < MaxEntries
    /\ \E parent \in DirsOf(tmp_data) \cup {<<>>}, n \in DirNames :
         /\ Len(parent) < MaxDepth
         /\ parent \o <<n>> \notin tmp_data.dirs
         /\ tmp_data' = [tmp_data EXCEPT !.exists = TRUE,
                                         !.dirs = @ \cup {parent \o <<n>>}]
    /\ UNCHANGED <<pc, dataDir, datasets, current, chatBox, userInput, logOut,
                   shown, name, dfs, walk, sigName, tmp0, datasets0, closeOrder>>

\* the query widget writes one result file
QueryWidgetWrite ==
    /\ Idle
    /\ ev' = "none"
    /\ EntryCount(tmp_data) < MaxEntries
    /\ \E parent \in DirsOf(tmp_data) \cup {<<>>},
          f \in ScratchFiles :
         /\ f.name \notin FileNames(tmp_data, parent)
         /\ tmp_data' =
                [tmp_data EXCEPT !.exists = TRUE,
                                 !.files = @ \cup {[path |-> parent, name |-> f.name,
                                                    ok |-> f.ok, df |-> f.df]}]
    /\ UNCHANGED <<pc, dataDir, datasets, current, chatBox, userInput, logOut,
                   shown, name, dfs, walk, sigName, tmp0, datasets0, closeOrder>>

\* ------------------------------------------------------------- os.walk
\* os.scandir(top): one frame of the walk, the listing in any order;
\* i, j, k count the subdirectories walked and the files and
\* subdirectories the loop body has handled
Scans(fs, top) ==
    {[top |-> top, dirs |-> ds, files |-> fl, i |-> 0, j |-> 0, k |-> 0] :
        ds \in Perms(SubdirNames(fs, top)), fl \in Perms(FileNames(fs, top))}

Top(stack) == stack[Len(stack)]

Pop(stack) == SubSeq(stack, 1, Len(stack) - 1)

SetTop(stack, frame) == [stack EXCEPT ![Len(stack)] = frame]

\* ---------------------------------------------------------- _finish_query
ResultIds == {<<"q">>}

\* a read loop without the test on the file name
RECURSIVE ReadFiles_all(_, _, _, _)
ReadFiles_all(fs, top, files, acc) ==
    IF files = <<>> THEN acc
    ELSE LET file == Head(files)
             f == FileAt(fs, top, file)
             log1 == Append(acc.log, LogRec("debug", "Reading file", <<file>>))
             next ==
                 IF f.ok
                 THEN [dfs |-> Append(acc.dfs, f.df), log |-> log1]
                 ELSE [dfs |-> acc.dfs,
                       log |-> log1
                           \o <<LogRec("error",
                                       "Unable to convert file to dataframe",
                                       top \o <<file>>),
                                LogRec("error", "exception", top \o <<file>>)>>]
         IN  ReadFiles_all(fs, top, Tail(files), next)

\* the loop body of the read pass over one directory: debug line per file,
\* pd.read_csv on the names that end in .csv; acc is [dfs, log]
RECURSIVE ReadFiles(_, _, _, _)
ReadFiles(fs, top, files, acc) ==
    IF files = <<>> THEN acc
    ELSE LET file == Head(files)
             f == FileAt(fs, top, file)
             log1 == Append(acc.log, LogRec("debug", "Reading file", <<file>>))
             next ==
                 IF EndsWith(file, DotCsv)
                 THEN IF f.ok
                      THEN [dfs |-> Append(acc.dfs, f.df), log |-> log1]
                      ELSE [dfs |-> acc.dfs,
                            log |-> log1
                                \o <<LogRec("error",
                                            "Unable to convert file to dataframe",
                                            top \o <<file>>),
                                     LogRec("error", "exception", top \o <<file>>)>>]
                 ELSE [dfs |-> acc.dfs, log |-> log1]
         IN  ReadFiles(fs, top, Tail(files), next)

\* the slot of _query_widget.done is entered: the first log line, dfs = []
FinishQueryBegin ==
    /\ Idle
    /\ Len(datasets) < MaxRegistry
    /\ \E id \in ResultIds : name' = id /\ sigName' = id
    /\ pc' = "read_start"
    /\ ev' = "_finish_query"
    /\ logOut' = <<LogRec("info", "Done with query", <<>>)>>
    /\ dfs' = <<>>
    /\ walk' = <<>>
    /\ tmp0' = tmp_data
    /\ datasets0' = datasets
    /\ UNCHANGED <<dataDir, tmp_data, datasets, current, chatBox, userInput, shown,
                   closeOrder>>

\* read pass, os.walk(output_dir): a directory is listed and yielded, its
\* files are read; the first directory is ./tmp_data, if it exists
ReadVisit(top) ==
    \E frame \in Scans(tmp_data, top) :
        LET got == ReadFiles(tmp_data, top, frame.files, [dfs |-> dfs, log |-> logOut])
        IN  /\ walk' = Append(walk, frame)
            /\ dfs' = got.dfs
            /\ logOut' = got.log

ReadStart ==
    /\ pc = "read_start"
    /\ IF tmp_data.exists
       THEN ReadVisit(<<>>) /\ pc' = "read"
       ELSE pc' = "cleanup_start" /\ UNCHANGED <<walk, dfs, logOut>>
    /\ UNCHANGED <<ev, dataDir, tmp_data, datasets, current, chatBox, userInput, shown,
                   name, sigName, tmp0, datasets0, closeOrder>>

\* read pass: the walk goes down into the next subdirectory of the listing
ReadDescend ==
    /\ pc = "read"
    /\ walk # <<>>
    /\ Top(walk).i < Len(Top(walk).dirs)
    /\ LET f == Top(walk)
           child == f.top \o <<f.dirs[f.i + 1]>>
       IN  \E frame \in Scans(tmp_data, child) :
               LET got == ReadFiles(tmp_data, child, frame.files,
                                    [dfs |-> dfs, log |-> logOut])
               IN  /\ walk' = Append(SetTop(walk, [f EXCEPT !.i = @ + 1]), frame)
                   /\ dfs' = got.dfs
                   /\ logOut' = got.log
    /\ UNCHANGED <<pc, ev, dataDir, tmp_data, datasets, current, chatBox, userInput,
                   shown, name, sigName, tmp0, datasets0, closeOrder>>

\* read pass: a directory whose subdirectories are all walked is left; the
\* pass ends when ./tmp_data itself is left
ReadReturn ==
    /\ pc = "read"
    /\ walk # <<>>
    /\ Top(walk).i = Len(Top(walk).dirs)
    /\ walk' = Pop(walk)
    /\ pc' = IF Len(walk) = 1 THEN "cleanup_start" ELSE "read"
    /\ UNCHANGED <<ev, dataDir, tmp_data, datasets, current, chatBox, userInput, logOut,
                   shown, name, dfs, sigName, tmp0, datasets0, closeOrder>>

\* a cleanup that is skipped when no table was read
CleanupStart_ifRead ==
    /\ pc = "cleanup_start"
    /\ IF tmp_data.exists /\ dfs # <<>>
       THEN /\ \E frame \in Scans(tmp_data, <<>>) : walk' = <<frame>>
            /\ pc' = "cleanup"
       ELSE pc' = "create" /\ walk' = <<>>
    /\ UNCHANGED <<ev, dataDir, tmp_data, datasets, current, chatBox, userInput, logOut,
                   shown, name, dfs, sigName, tmp0, datasets0, closeOrder>>

\* cleanup pass, os.walk(output_dir, topdown=False): ./tmp_data is listed
CleanupStart ==
    /\ pc = "cleanup_start"
    /\ IF tmp_data.exists
       THEN /\ \E frame \in Scans(tmp_data, <<>>) : walk' = <<frame>>
            /\ pc' = "cleanup"
       ELSE pc' = "create" /\ walk' = <<>>
    /\ UNCHANGED <<ev, dataDir, tmp_data, datasets, current, chatBox, userInput, logOut,
                   shown, name, dfs, sigName, tmp0, datasets0, closeOrder>>

\* a walk that yields a directory without going down into its subdirectories
CleanupDescend_flat ==
    /\ pc = "cleanup"
    /\ walk # <<>>
    /\ Top(walk).i < Len(Top(walk).dirs)
    /\ walk' = SetTop(walk, [Top(walk) EXCEPT !.i = Len(Top(walk).dirs)])
    /\ UNCHANGED <<pc, ev, dataDir, tmp_data, datasets, current, chatBox, userInput,
                   logOut, shown, name, dfs, sigName, tmp0, datasets0, closeOrder>>

\* cleanup pass: bottom-up, every subdirectory of the listing is walked
\* before the directory itself is yielded
CleanupDescend ==
    /\ pc = "cleanup"
    /\ walk # <<>>
    /\ Top(walk).i < Len(Top(walk).dirs)
    /\ LET f == Top(walk)
           child == f.top \o <<f.dirs[f.i + 1]>>
       IN  \E frame \in Scans(tmp_data, child) :
               walk' = Append(SetTop(walk, [f EXCEPT !.i = @ + 1]), frame)
    /\ UNCHANGED <<pc, ev, dataDir, tmp_data, datasets, current, chatBox, userInput,
                   logOut, shown, name, dfs, sigName, tmp0, datasets0, closeOrder>>

\* the directory on top of the walk has been yielded to the loop body
Yielded == pc = "cleanup" /\ walk # <<>> /\ Top(walk).i = Len(Top(walk).dirs)

\* for name in files: os.remove(file_path)
CleanupRemoveFile ==
    /\ Yielded
    /\ Top(walk).j < Len(Top(walk).files)
    /\ LET f == Top(walk)
           file == f.files[f.j + 1]
       IN  /\ tmp_data' = [tmp_data EXCEPT !.files = @ \ {FileAt(tmp_data, f.top, file)}]
           /\ name' = file
           /\ logOut' = Append(logOut, LogRec("debug", "Removing file", <<file>>))
           /\ walk' = SetTop(walk, [f EXCEPT !.j = @ + 1])
    /\ UNCHANGED <<pc, ev, dataDir, datasets, current, chatBox, userInput, shown, dfs,
                   sigName, tmp0, datasets0, closeOrder>>

\* for name in dirs: os.rmdir(dir_path); os.rmdir raises OSError on a
\* directory that is not empty, and nothing in the slot catches it
CleanupRemoveDir ==
    /\ Yielded
    /\ Top(walk).j = Len(Top(walk).files)
    /\ Top(walk).k < Len(Top(walk).dirs)
    /\ LET f == Top(walk)
           dir == f.dirs[f.k + 1]
           path == f.top \o <<dir>>
       IN  /\ name' = dir
           /\ IF Beneath(tmp_data, path) = {}
              THEN /\ tmp_data' = [tmp_data EXCEPT !.dirs = @ \ {path}]
                   /\ logOut' = Append(logOut, LogRec("debug", "Removing sub directory", <<dir>>))
                   /\ walk' = SetTop(walk, [f EXCEPT !.k = @ + 1])
                   /\ pc' = pc
              ELSE /\ pc' = "raised"
                   /\ UNCHANGED <<tmp_data, logOut, walk>>
    /\ UNCHANGED <<ev, dataDir, datasets, current, chatBox, userInput, shown, dfs,
                   sigName, tmp0, datasets0, closeOrder>>

\* the loop body is done with the directory; the pass ends with ./tmp_data
CleanupReturn ==
    /\ Yielded
    /\ Top(walk).j = Len(Top(walk).files)
    /\ Top(walk).k = Len(Top(walk).dirs)
    /\ walk' = Pop(walk)
    /\ pc' = IF Len(walk) = 1 THEN "create" ELSE "cleanup"
    /\ UNCHANGED <<ev, dataDir, tmp_data, datasets, current, chatBox, userInput, logOut,
                   shown, name, dfs, sigName, tmp0, datasets0, closeOrder>>

RECURSIVE SumRows(_)
SumRows(frames) == IF frames = <<>> THEN 0 ELSE Head(frames).rows + SumRows(Tail(frames))

\* pd.concat(dfs, ignore_index=True): the rows of all frames, the union of
\* their columns
PdConcat(frames) ==
    [rows |-> SumRows(frames),
     cols |-> UNION {frames[i].cols : i \in 1..Len(frames)}]

SameColumns(frames) == \A i, j \in 1..Len(frames) : frames[i].cols = frames[j].cols

\* what the try block around pd.concat can end in: the frame, or, for
\* frames whose columns differ, possibly an exception
ConcatOutcomes(frames) ==
    {[ok |-> TRUE, df |-> PdConcat(frames)]}
    \cup (IF SameColumns(frames) THEN {} ELSE {[ok |-> FALSE, df |-> NoDf]})

\* a handler that reports the empty result as an error
FinishQueryCreate_err ==
    /\ pc = "create"
    /\ pc' = "idle"
    /\ IF dfs # <<>>
       THEN \E t \in Clock, out \in ConcatOutcomes(dfs) :
               IF out.ok
               THEN /\ datasets' = AddItem(datasets, name \o <<"_">> \o StrfHMS(t), out.df)
                    /\ logOut' = logOut
               ELSE /\ datasets' = datasets
                    /\ logOut' = logOut
                           \o <<LogRec("error", "Unable to concat dataframes.", <<>>),
                                LogRec("error", "exception", <<>>)>>
       ELSE /\ datasets' = datasets
            /\ logOut' = Append(logOut, LogRec("error", "No dataset created", <<>>))
    /\ current' = CurrentAfterAdd(datasets', current)
    /\ UNCHANGED <<ev, dataDir, tmp_data, chatBox, userInput, shown, name, dfs, walk,
                   sigName, tmp0, datasets0, closeOrder>>

\* if dfs: ... else: ... and the slot returns
FinishQueryCreate ==
    /\ pc = "create"
    /\ pc' = "idle"
    /\ IF dfs # <<>>
       THEN \E t \in Clock, out \in ConcatOutcomes(dfs) :
               IF out.ok
               THEN /\ datasets' = AddItem(datasets, name \o <<"_">> \o StrfHMS(t), out.df)
                    /\ logOut' = logOut
               ELSE /\ datasets' = datasets
                    /\ logOut' = logOut
                           \o <<LogRec("error", "Unable to concat dataframes.", <<>>),
                                LogRec("error", "exception", <<>>)>>
       ELSE /\ datasets' = datasets
            /\ logOut' = Append(logOut, LogRec("info", "No dataset created", <<>>))
    /\ current' = CurrentAfterAdd(datasets', current)
    /\ UNCHANGED <<ev, dataDir, tmp_data, chatBox, userInput, shown, name, dfs, walk,
                   sigName, tmp0, datasets0, closeOrder>>

\* ------------------------------------------------------- specifications
Fresh ==
    /\ ev = "none"
    /\ datasets = <<>>
    /\ current = 0
    /\ chatBox = <<>>
    /\ userInput = <<>>
    /\ logOut = <<>>
    /\ shown = {}
    /\ name = <<>>
    /\ dfs = <<>>
    /\ walk = <<>>
    /\ sigName = <<>>
    /\ tmp0 = NoTree
    /\ datasets0 = <<>>
    /\ closeOrder = <<>>

OneRow == [rows |-> 1, cols |-> {"x"}]

\* well-formed files of ./data, all of which load under the name "a"
SeedFiles ==
    <<[name |-> CsvA, ok |-> TRUE, df |-> OneRow],
      [name |-> CsvDotted, ok |-> TRUE, df |-> OneRow],
      [name |-> <<"a">>, ok |-> TRUE, df |-> OneRow],
      [name |-> <<"a", ".">>, ok |-> TRUE, df |-> OneRow]>>

\* the whole application: the window is constructed over a small ./data,
\* then the event loop runs; a query leaves one nested result file, or,
\* when the widget signals without having run, nothing
SampleTrees ==
    { [exists |-> TRUE, dirs |-> {<<<<"s">>>>},
       files |-> {[path |-> <<<<"s">>>>, name |-> CsvA, ok |-> TRUE, df |-> OneRow]}] }

\* the query widget runs a query and leaves its result files
QueryWidgetRun ==
    /\ Idle
    /\ ev' = "none"
    /\ EntryCount(tmp_data) = 0
    /\ tmp_data' \in SampleTrees
    /\ UNCHANGED <<pc, dataDir, datasets, current, chatBox, userInput, logOut,
                   shown, name, dfs, walk, sigName, tmp0, datasets0, closeOrder>>

Init ==
    /\ pc = "new"
    /\ dataDir \in {{}, {SeedFiles[1]}}
    /\ tmp_data = NoTree
    /\ Fresh

FinishQuery ==
    \/ FinishQueryBegin
    \/ ReadStart
    \/ ReadDescend
    \/ ReadReturn
    \/ CleanupStart
    \/ CleanupDescend
    \/ CleanupRemoveFile
    \/ CleanupRemoveDir
    \/ CleanupReturn
    \/ FinishQueryCreate

CloseEvent ==
    \/ CloseEventImport
    \/ CloseEventQuery
    \/ CloseEventTable
    \/ CloseEventSuper

Next ==
    \/ Construct
    \/ UserTypes
    \/ UserChatted
    \/ OpenImport
    \/ OpenQuery
    \/ OpenTable
    \/ UserClosesWidget
    \/ FinishImport
    \/ QueryWidgetRun
    \/ FinishQuery
    \/ CloseEvent

Spec == Init /\ [][Next]_vars

\* start-up alone: the constructor over every ./data within the bounds
InitStartup ==
    /\ pc = "new"
    /\ dataDir \in DataDirs
    /\ tmp_data = NoTree
    /\ Fresh

NextStartup == Construct

SpecStartup == InitStartup /\ [][NextStartup]_vars

\* one query cycle: a constructed window whose registry has room for one
\* more entry, the query widget building any scratch tree within the bounds
InitQuery ==
    /\ pc = "idle"
    /\ ev = "__init__"
    /\ dataDir = {SeedFiles[i] : i \in 1..(MaxRegistry - 1)}
    /\ tmp_data \in {NoTree, EmptyTree}
    /\ \E t \in {c \in Clock : c.mo = 1}, listing \in Perms(dataDir) :
         LET loaded ==
                 LoadAll(listing,
                         [items |-> <<>>,
                          log |-> <<LogRec("info", "Running movie recommendation app",
                                           <<>>)>>])
         IN  /\ chatBox = <<ChatLine(t, "Bot", Greeting)>>
             /\ datasets = loaded.items
             /\ current = CurrentAfterAdd(loaded.items, 0)
             /\ logOut = loaded.log
    /\ userInput = <<>>
    /\ shown = {"main"}
    /\ name = <<>>
    /\ dfs = <<>>
    /\ walk = <<>>
    /\ sigName = <<>>
    /\ tmp0 = NoTree
    /\ datasets0 = <<>>
    /\ closeOrder = <<>>

NextQuery ==
    \/ QueryWidgetMkdir
    \/ QueryWidgetWrite
    \/ FinishQuery

SpecQuery == InitQuery /\ [][NextQuery]_vars

\* ----------------------------------------------------------------- claims
CsvFiles(fs) == {f \in fs.files : EndsWith(f.name, DotCsv)}

ValidCsvFiles(fs) == {f \in CsvFiles(fs) : f.ok}

RECURSIVE RowsOf(_)
RowsOf(S) ==
    IF S = {} THEN 0
    ELSE LET f == CHOOSE x \in S : TRUE IN f.df.rows + RowsOf(S \ {f})

\* _finish_query has just returned
Returned == pc = "idle" /\ ev = "_finish_query"

\* __init__ has just returned
Started == pc = "idle" /\ ev = "__init__"

\* ./tmp_data holds no file and no subdirectory
Cleared == tmp_data.dirs = {} /\ tmp_data.files = {}

LastOf(seq) == seq[Len(seq)]

\* seq is old with exactly one element appended
OneAppended(old, seq) ==
    Len(seq) = Len(old) + 1 /\ SubSeq(seq, 1, Len(old)) = old

SetMax(S) == CHOOSE x \in S : \A y \in S : y <= x

\* the text before the last dot of a file name, all of it if there is none
StripFinalExt(s) ==
    LET at == {i \in 1..Len(s) : s[i] = "."}
    IN  IF at = {} THEN s ELSE SubSeq(s, 1, SetMax(at) - 1)

IsBlank(s) == \A i \in 1..Len(s) : s[i] = " "

\* C1: when _finish_query returns and ./tmp_data held K >= 1 well-formed
\* .csv files with the same columns, anywhere in the tree, exactly one
\* dataset was appended to ui.datasets, its row count is the sum of the
\* row counts of those files, and ./tmp_data holds nothing any more.
C1_OneDatasetSumOfRows ==
    ( /\ Returned
      /\ ValidCsvFiles(tmp0) # {}
      /\ \A f, g \in ValidCsvFiles(tmp0) : f.df.cols = g.df.cols )
    => /\ OneAppended(datasets0, datasets)
       /\ LastOf(datasets).data.rows = RowsOf(ValidCsvFiles(tmp0))
       /\ Cleared

C1_Witness ==
    /\ Returned
    /\ Cardinality(ValidCsvFiles(tmp0)) >= 2
    /\ \E f \in ValidCsvFiles(tmp0) : f.path # <<>>
    /\ \A f, g \in ValidCsvFiles(tmp0) : f.df.cols = g.df.cols
    /\ OneAppended(datasets0, datasets)
    /\ LastOf(datasets).data.rows >= 2
    /\ Cleared

\* C2: the dataset _finish_query creates is named after the identifier the
\* done signal carried, followed by "_" and the time as HH:MM:SS.
C2_NamedAfterResultId ==
    (Returned /\ Len(datasets) > Len(datasets0))
    => \E t \in Clock : LastOf(datasets).name = sigName \o <<"_">> \o StrfHMS(t)

\* C3: _user_chatted leaves the chat log unchanged when the input is empty
\* or only whitespace; otherwise it appends exactly one timestamped User
\* line with the input text and clears the input field.
C3_BlankInputIgnored ==
    [][ ev' = "_user_chatted"
        => IF IsBlank(userInput)
           THEN chatBox' = chatBox
           ELSE /\ \E t \in Clock :
                     chatBox' = Append(chatBox, ChatLine(t, "User", userInput))
                /\ userInput' = <<>> ]_vars

\* C4: every dataset the start-up loader registers is named after its file
\* name with only the final extension removed.
C4_NameIsFileNameWithoutFinalExt ==
    Started
    => \E listing \in Perms({f \in dataDir : f.ok}) :
           /\ Len(datasets) = Len(listing)
           /\ \A i \in 1..Len(listing) :
                  datasets[i].name = StripFinalExt(listing[i].name)

\* the positions of logOut that report a file that could not be converted
FailureReports ==
    {i \in 1..Len(logOut) :
        /\ logOut[i].level = "error"
        /\ logOut[i].msg = "Unable to convert file to dataframe"}

\* C5: over a ./data of N well-formed and M malformed files, in any listing
\* order, start-up registers exactly N datasets and logs M failures, each
\* as the failing path followed by the exception.
C5_LoadsEveryValidFile ==
    Started
    => /\ Len(datasets) = Cardinality({f \in dataDir : f.ok})
       /\ Cardinality(FailureReports) = Cardinality({f \in dataDir : ~f.ok})
       /\ \A f \in {g \in dataDir : ~g.ok} :
              \E i \in FailureReports :
                  /\ logOut[i].arg = <<f.name>>
                  /\ i < Len(logOut)
                  /\ logOut[i + 1] = LogRec("error", "exception", <<f.name>>)

C5_Witness ==
    /\ Started
    /\ \E f, g \in dataDir : f.ok /\ ~g.ok
    /\ Len(datasets) >= 1
    /\ FailureReports # {}

\* C6: when _finish_query returns and ./tmp_data held no .csv file,
\* ui.datasets is as it was, the outcome was logged at info level with no
\* error logged, and ./tmp_data holds nothing.
C6_NoCsvNoDataset ==
    (Returned /\ CsvFiles(tmp0) = {})
    => /\ datasets = datasets0
       /\ LastOf(logOut) = LogRec("info", "No dataset created", <<>>)
       /\ \A i \in 1..Len(logOut) : logOut[i].level # "error"
       /\ Cleared

C6_Witness ==
    /\ Returned
    /\ CsvFiles(tmp0) = {}
    /\ tmp0.files # {}
    /\ tmp0.dirs # {}
    /\ datasets = datasets0
    /\ Cleared

\* C7: closeEvent closes the import, query and table widgets, in that
\* order, before the main window closes; the main window is never closed
\* while one of them is open.
C7_CollaboratorsClosedFirst ==
    /\ pc \in {"close_super", "closed"} => shown \cap Collaborators = {}
    /\ (pc # "new" /\ "main" \notin shown) => shown = {}
    /\ pc = "closed"
       => [i \in 1..Len(closeOrder) |-> closeOrder[i].window]
              = <<"import", "query", "table", "main">>

C7_Witness ==
    /\ pc = "closed"
    /\ Len(closeOrder) = 4
    /\ \A i \in 1..4 : closeOrder[i].open
    /\ shown = {}

\* C8: whatever ./tmp_data held, _finish_query returns, and when it does
\* every file and subdirectory is gone, dataset or no dataset.
C8_CleanupUnconditional ==
    /\ pc # "raised"
    /\ Returned => Cleared

C8_Witness ==
    /\ Returned
    /\ \E f \in CsvFiles(tmp0) : ~f.ok
    /\ ValidCsvFiles(tmp0) = {}
    /\ tmp0.dirs # {}
    /\ datasets = datasets0
    /\ Cleared

\* C9: within _finish_query nothing is deleted until the read pass is over,
\* a subdirectory is gone only when nothing beneath it is left, and
\* os.rmdir is never tried on a directory that is not empty.
C9_DeepestFirstAfterRead ==
    ev = "_finish_query"
    => /\ pc # "raised"
       /\ pc \in {"read_start", "read", "cleanup_start"} => tmp_data = tmp0
       /\ tmp_data.dirs \subseteq tmp0.dirs
       /\ tmp_data.files \subseteq tmp0.files
       /\ \A d \in tmp0.dirs \ tmp_data.dirs : Beneath(tmp_data, d) = {}

C9_Witness ==
    /\ ev = "_finish_query"
    /\ pc = "cleanup"
    /\ \E d \in tmp0.dirs :
         /\ Len(d) = 2
         /\ d \notin tmp_data.dirs
         /\ SubSeq(d, 1, 1) \in tmp_data.dirs
         /\ \E f \in tmp0.files : f.path = d

\* C10: ui.datasets is append-only: every step keeps the entries it had, in
\* order; _finish_import appends exactly one, duplicate name or not; a
\* whole _finish_query appends at most one; no other event after start-up
\* appends any.
C10_RegistryAppendOnly ==
    [][ /\ Len(datasets) <= Len(datasets')
        /\ SubSeq(datasets', 1, Len(datasets)) = datasets
        /\ ev' = "_finish_import" => Len(datasets') = Len(datasets) + 1
        /\ ev' = "_finish_query" => Len(datasets') <= Len(datasets0') + 1
        /\ ev' \notin {"__init__", "_finish_import", "_finish_query"}
           => datasets' = datasets ]_vars

C10_Witness ==
    /\ ev = "_finish_import"
    /\ Len(datasets) >= 2
    /\ datasets[Len(datasets)].name = datasets[1].name

====
